---- MODULE Spec2Model ----
(***************************************************************************)
(* Model of qiskit_machine_learning/datasets/ad_hoc.py: the ad hoc data    *)
(* set generator and its helpers.                                          *)
(*                                                                         *)
(* One behaviour is one call: Init picks the function that is called and   *)
(* its arguments, the actions are the steps of that function.  Real        *)
(* numbers are kept exact: a matrix entry is a sign together with the      *)
(* number of 1/sqrt(2) factors, an angle is a rational multiple of 2*pi.   *)
(***************************************************************************)
EXTENDS Integers, Sequences, FiniteSets

VARIABLES
    fn,          \* the function that is called
    pc,          \* position inside that function
    args,        \* its arguments
    ret,         \* its return value, or the exception it raised
    locals,      \* ad_hoc_data: what the call had built when it ended
    result,      \* _n_hadamard: result
    base,        \* _n_hadamard: base
    expo,        \* _n_hadamard: expo
    list_i,      \* _sample_ad_hoc_data: i, the index of the list being filled
    sample_a,    \* _sample_ad_hoc_data: sample_a
    sample_b,    \* _sample_ad_hoc_data: sample_b
    draws,       \* _sample_ad_hoc_data: draws, the last tuple of grid indices drawn
    all_bins,    \* _modified_LHC: all_bins
    samples,     \* _modified_LHC: samples, the columns filled so far
    dim          \* _modified_LHC: dim

cvars == <<fn, args>>
hvars == <<result, base, expo>>
svars == <<list_i, sample_a, sample_b, draws>>
lvars == <<all_bins, samples, dim>>
vars == <<fn, pc, args, ret, locals, result, base, expo, list_i, sample_a, sample_b,
          draws, all_bins, samples, dim>>

-----------------------------------------------------------------------------
(* Bounds of the model *)

\* largest n given to _n_hadamard
MaxHadN == 4

\* largest num_samples given to _sample_ad_hoc_data
MaxNumSamples == 2

\* the grids given to _sample_ad_hoc_data: <<n, count>>, count points on each of n axes
GridShapes == {<<1, 2>>, <<1, 3>>, <<2, 2>>}

\* largest n_samples given to _modified_LHC and _sobol_sampling
MaxSamples == 2

\* largest n_div given to _modified_LHC
MaxDiv == 2

\* the dimensions n given to _modified_LHC and _sobol_sampling
SamplerDims == {1, 2}

\* a random number of [0, 1) is one of 0/Res, 1/Res, ..., (Res-1)/Res
Res == 2

\* largest train_size and test_size given to ad_hoc_data (besides the module's own call)
MaxSize == 2

-----------------------------------------------------------------------------
(* Outcomes of a call *)

NoRet == [kind |-> "none"]
Return(v) == [kind |-> "return", value |-> v]
Raise(e, l) == [kind |-> "raise", exc |-> e, line |-> l]

\* the variables of the functions that are not running
NoLocals == [sampler |-> "none", uphi |-> 0, labelled |-> 0]
IdleH == result = <<>> /\ base = <<>> /\ expo = 0
IdleS == list_i = 0 /\ sample_a = <<>> /\ sample_b = <<>> /\ draws = <<>>
IdleL == all_bins = <<>> /\ samples = <<>> /\ dim = 0

-----------------------------------------------------------------------------
(* Matrices.  A matrix is [k, dim, m]: m[i][j] is the sign of entry (i,j)  *)
(* (rows and columns from 0), and every entry carries the factor           *)
(* (1/sqrt 2)^k.                                                           *)

Matrix(k, d, f) == [k |-> k, dim |-> d, m |-> f]

\* 2**n
RECURSIVE Pow2(_)
Pow2(n) == IF n = 0 THEN 1 ELSE 2 * Pow2(n - 1)

\* the scalar 1 that result starts from
One == Matrix(0, 1, [i \in 0..0 |-> [j \in 0..0 |-> 1]])

\* np.array([[1, 1], [1, -1]]) / np.sqrt(2)
H1 == Matrix(1, 2, [i \in 0..1 |-> [j \in 0..1 |-> IF i = 1 /\ j = 1 THEN -1 ELSE 1]])

\* np.kron(a, b)
Kron(a, b) ==
    Matrix(a.k + b.k, a.dim * b.dim,
           [i \in 0..(a.dim * b.dim - 1) |->
               [j \in 0..(a.dim * b.dim - 1) |->
                   a.m[i \div b.dim][j \div b.dim] * b.m[i % b.dim][j % b.dim]]])

-----------------------------------------------------------------------------
(* _n_hadamard(n) *)

\* a loop body that multiplies base into result whatever expo is
HadResultAlways(r, b, e) == Kron(r, b)

\* the loop body's update of result
HadResult(r, b, e) == IF e % 2 = 1 THEN Kron(r, b) ELSE r

\* the loop body's update of base
HadBase(b) == Kron(b, b)

HadInit ==
    /\ fn = "_n_hadamard"
    /\ pc = "while"
    /\ \E n \in 1..MaxHadN : args = [n |-> n]
    /\ result = One
    /\ base = H1
    /\ expo = args.n
    /\ ret = NoRet /\ locals = NoLocals
    /\ IdleS /\ IdleL

\* one iteration of `while expo>0`
HadIter ==
    /\ fn = "_n_hadamard" /\ pc = "while"
    /\ expo > 0
    /\ result' = HadResult(result, base, expo)
    /\ base' = HadBase(base)
    /\ expo' = expo \div 2
    /\ UNCHANGED <<pc, ret, locals>>
    /\ UNCHANGED <<cvars, svars, lvars>>

\* the loop's exit and `return result`
HadReturn ==
    /\ fn = "_n_hadamard" /\ pc = "while"
    /\ ~(expo > 0)
    /\ pc' = "done"
    /\ ret' = Return(result)
    /\ UNCHANGED locals
    /\ UNCHANGED <<cvars, hvars, svars, lvars>>

-----------------------------------------------------------------------------
(* _sample_ad_hoc_data(sample_total, xvals, num_samples, n) *)

\* the index tuples of a grid of count points on each of n axes
GridIdx(n, count) == [1..n -> 0..(count - 1)]

\* label = 1 if i == 0 else -1
WantedLabel(i) == IF i = 0 THEN 1 ELSE -1

\* a test that takes every labelled grid point, whatever its class
DrawAcceptedAnyLabel(sample_total, d, label) == sample_total[d] # 0

\* sample_total[draws] == label
DrawAccepted(sample_total, d, label) == sample_total[d] = label

\* [xvals[d] for d in draws]
DrawPoint(xvals, d) == [k \in 1..Len(d) |-> xvals[d[k]]]

\* [0] * num_samples + [1] * num_samples
SampleLabels(num) == [k \in 1..(2 * num) |-> IF k <= num THEN 0 ELSE 1]

\* np.reshape([sample_a, sample_b], (2 * num_samples, n))
SampleRows(a, b) == a \o b

\* the list the loop is filling
SampleList == IF list_i = 0 THEN sample_a ELSE sample_b

SampleInit ==
    /\ fn = "_sample_ad_hoc_data"
    /\ pc = "while"
    /\ \E shape \in GridShapes, num \in 0..MaxNumSamples :
         \E grid \in [GridIdx(shape[1], shape[2]) -> {-1, 0, 1}] :
            args = [sample_total |-> grid,
                    xvals |-> [d \in 0..(shape[2] - 1) |-> 7 + 3 * d],
                    num_samples |-> num,
                    n |-> shape[1],
                    count |-> shape[2]]
    /\ list_i = 0 /\ sample_a = <<>> /\ sample_b = <<>> /\ draws = <<>>
    /\ ret = NoRet /\ locals = NoLocals
    /\ IdleH /\ IdleL

\* a draw whose grid label is the wanted one: the point is appended
SampleAccept ==
    /\ fn = "_sample_ad_hoc_data" /\ pc = "while"
    /\ list_i \in {0, 1}
    /\ Len(SampleList) < args.num_samples
    /\ \E d \in GridIdx(args.n, args.count) :
         /\ DrawAccepted(args.sample_total, d, WantedLabel(list_i))
         /\ draws' = d
         /\ IF list_i = 0
              THEN /\ sample_a' = Append(sample_a, DrawPoint(args.xvals, d))
                   /\ UNCHANGED sample_b
              ELSE /\ sample_b' = Append(sample_b, DrawPoint(args.xvals, d))
                   /\ UNCHANGED sample_a
    /\ UNCHANGED <<pc, ret, locals, list_i>>
    /\ UNCHANGED <<cvars, hvars, lvars>>

\* a draw whose grid label is another one: nothing is appended
SampleReject ==
    /\ fn = "_sample_ad_hoc_data" /\ pc = "while"
    /\ list_i \in {0, 1}
    /\ Len(SampleList) < args.num_samples
    /\ \E d \in GridIdx(args.n, args.count) :
         /\ ~DrawAccepted(args.sample_total, d, WantedLabel(list_i))
         /\ draws' = d
    /\ UNCHANGED <<pc, ret, locals, list_i, sample_a, sample_b>>
    /\ UNCHANGED <<cvars, hvars, lvars>>

\* the while loop ends: the for loop takes the next list
SampleNextList ==
    /\ fn = "_sample_ad_hoc_data" /\ pc = "while"
    /\ list_i \in {0, 1}
    /\ ~(Len(SampleList) < args.num_samples)
    /\ list_i' = list_i + 1
    /\ UNCHANGED <<pc, ret, locals, sample_a, sample_b, draws>>
    /\ UNCHANGED <<cvars, hvars, lvars>>

\* after the for loop: labels, samples, return
SampleReturn ==
    /\ fn = "_sample_ad_hoc_data" /\ pc = "while"
    /\ list_i = 2
    /\ pc' = "done"
    /\ ret' = Return([samples |-> SampleRows(sample_a, sample_b),
                       labels |-> SampleLabels(args.num_samples)])
    /\ UNCHANGED locals
    /\ UNCHANGED <<cvars, hvars, svars, lvars>>

-----------------------------------------------------------------------------
(* Angles.  An angle is [num, den, ulp]: a double within rounding error of *)
(* 2*pi*num/den.  num = 0 is the double 0.0.  ulp tells the side of        *)
(* 2*pi*num/den the double lies on where the rounding is followed: -1      *)
(* below, 1 above, 0 on it (for num = den: the double 2*pi itself) or not  *)
(* followed.                                                               *)

Angle(num, den, ulp) == [num |-> num, den |-> den, ulp |-> ulp]

\* the values algorithm_globals.random.random() may give, a double of [0, 1): the
\* numerators 0..Res-1 over Res, and Res for the largest of them, 1 - 2^-53
UnitDraws == 0..Res

\* the values Sobol.random() may give: multiples of 2^-30 in [0, 1), as numerators
\* over Res
SobolDraws == 0..(Res - 1)

-----------------------------------------------------------------------------
(* _modified_LHC(n, n_samples, n_div) *)

\* n_passes = (n_samples+n_div-1)//n_div
NPasses(n_samples, n_div) == (n_samples + n_div - 1) \div n_div

\* np.tile(np.arange(n_div), n_passes)
Tile(n_div, n_passes) == [k \in 1..(n_div * n_passes) |-> (k - 1) % n_div]

Occurrences(s, v) == Cardinality({k \in 1..Len(s) : s[k] = v})

\* algorithm_globals.random.shuffle(all_bins): the orders all_bins may be left in
Shuffles(s) ==
    LET vals == {s[k] : k \in 1..Len(s)}
    IN  {t \in [1..Len(s) -> vals] : \A v \in vals : Occurrences(t, v) = Occurrences(s, v)}

\* chosen_bins+offsets in double arithmetic, as a numerator over Res: the sum is exact
\* for the offsets below Res; bin + (1 - 2^-53) is exact for bin = 0 and rounds up to
\* bin + 1 for bin >= 1
LhcSum(bin, off) == IF off = Res /\ bin >= 1 THEN (bin + 1) * Res ELSE bin * Res + off

\* The double 2*np.pi is TwoPiMantissa * 2^-50, where the 53-bit integer
\* TwoPiMantissa = 7074237752028440 = TwoPiHi * 2^26 + TwoPiLo.
TwoPiHi == 105414357
TwoPiLo == 4467992

\* (x * 2^k) mod m, by doubling
RECURSIVE DoubleMod(_, _, _)
DoubleMod(x, k, m) == IF k = 0 THEN x % m ELSE DoubleMod(2 * (x % m), k - 1, m)

\* (TwoPiMantissa * 2^s) mod m
MantissaMod(s, m) == (DoubleMod(TwoPiHi, 26 + s, m) + DoubleMod(TwoPiLo, s, m)) % m

\* the least s >= from for which TwoPiMantissa * 2^s / n_div is at least 2^52: the
\* 53-bit mantissa of bin_size = 2*np.pi/n_div is that quotient, rounded
RECURSIVE QuotientScale(_, _)
QuotientScale(n_div, from) ==
    IF TwoPiHi \div Pow2(26 - from) >= n_div THEN from ELSE QuotientScale(n_div, from + 1)

\* n_div * mantissa(bin_size) - TwoPiMantissa * 2^s, the error of the product before
\* it is rounded: the division rounds to nearest, ties to the even mantissa
ProductError(n_div) ==
    LET s   == QuotientScale(n_div, 0)
        r   == MantissaMod(s, n_div)
        odd == MantissaMod(s, 2 * n_div) >= n_div
        up  == 2 * r > n_div \/ (2 * r = n_div /\ odd)
    IN  IF up THEN n_div - r ELSE 0 - r

\* the side of the double 2*pi on which the double n_div * bin_size lies: the product
\* is rounded to a multiple of 2^s, a tie going to TwoPiMantissa, which is even
\* (n_div up to TwoPiHi)
TopSide(n_div) ==
    LET s == QuotientScale(n_div, 0)
        d == ProductError(n_div)
    IN  IF 2 * d > Pow2(s) THEN 1
        ELSE IF 0 - 2 * d > Pow2(s) THEN -1
        ELSE 0

\* (chosen_bins+offsets)*bin_size, with bin_size = 2*np.pi/n_div: the product
\* (1 - 2^-53) * bin_size is a double below bin_size, and the product n_div * bin_size
\* (the sum rounded up to n_div) is 2*pi or a double next to it
LhcCoord(bin, off, n_div) ==
    Angle(LhcSum(bin, off), n_div * Res,
          IF off = Res /\ bin = 0 THEN -1
          ELSE IF LhcSum(bin, off) = n_div * Res THEN TopSide(n_div)
          ELSE 0)

LhcInit ==
    /\ fn = "_modified_LHC"
    /\ pc = "for"
    /\ \E n \in SamplerDims, n_samples \in 0..MaxSamples, n_div \in 1..MaxDiv :
         args = [n |-> n, n_samples |-> n_samples, n_div |-> n_div]
    /\ all_bins = Tile(args.n_div, NPasses(args.n_samples, args.n_div))
    /\ samples = [r \in 1..args.n_samples |-> <<>>]
    /\ dim = 0
    /\ ret = NoRet /\ locals = NoLocals
    /\ IdleH /\ IdleS

\* one iteration of `for dim in range(n)`: shuffle, take the first n_samples bins,
\* draw the offsets, fill column dim
LhcDim ==
    /\ fn = "_modified_LHC" /\ pc = "for"
    /\ dim < args.n
    /\ \E shuffled \in Shuffles(all_bins), offsets \in [1..args.n_samples -> UnitDraws] :
         /\ all_bins' = shuffled
         /\ samples' = [r \in 1..args.n_samples |->
                           Append(samples[r], LhcCoord(shuffled[r], offsets[r], args.n_div))]
    /\ dim' = dim + 1
    /\ UNCHANGED <<pc, ret, locals>>
    /\ UNCHANGED <<cvars, hvars, svars>>

\* `return samples`
LhcReturn ==
    /\ fn = "_modified_LHC" /\ pc = "for"
    /\ ~(dim < args.n)
    /\ pc' = "done"
    /\ ret' = Return(samples)
    /\ UNCHANGED locals
    /\ UNCHANGED <<cvars, hvars, svars, lvars>>

-----------------------------------------------------------------------------
(* _sobol_sampling(n, n_samples) *)

\* 2*np.pi*sampler.random(n_samples): scipy's scrambled Sobol points lie in [0, 1)^n;
\* which points of that cube come out is left open
SobolPoints(n, n_samples) ==
    {[r \in 1..n_samples |-> [k \in 1..n |-> Angle(u[r][k], Res, 0)]] :
        u \in [1..n_samples -> [1..n -> SobolDraws]]}

SobolInit ==
    /\ fn = "_sobol_sampling"
    /\ pc = "call"
    /\ \E n \in SamplerDims, n_samples \in 0..MaxSamples :
         args = [n |-> n, n_samples |-> n_samples]
    /\ ret = NoRet /\ locals = NoLocals
    /\ IdleH /\ IdleS /\ IdleL

SobolCall ==
    /\ fn = "_sobol_sampling" /\ pc = "call"
    /\ pc' = "done"
    /\ \E p \in SobolPoints(args.n, args.n_samples) : ret' = Return(p)
    /\ UNCHANGED locals
    /\ UNCHANGED <<cvars, hvars, svars, lvars>>

-----------------------------------------------------------------------------
(* ad_hoc_data(train_size, test_size, n, gap, divisions) *)

\* the names bound in the module's namespace when ad_hoc_data runs: the names every
\* module has, the imports of lines 18-26 and the functions the module defines
ModuleNames ==
    {"__name__", "__doc__", "__package__", "__loader__", "__spec__", "__file__",
     "__cached__", "__builtins__", "annotations",
     "reduce", "it", "Tuple", "Dict", "List", "np", "preprocessing", "optionals",
     "algorithm_globals", "Sobol",
     "ad_hoc_data", "_sample_ad_hoc_data", "_plot_ad_hoc_data",
     "_features_and_labels_transform", "_n_hadamard", "_i_z", "_n_z",
     "_modified_LHC", "_sobol_sampling", "_phi_i", "_phi_ij"}

\* the names of the builtins module (Python 3.11)
Builtins ==
    {"ArithmeticError", "AssertionError", "AttributeError", "BaseException",
     "BaseExceptionGroup", "BlockingIOError", "BrokenPipeError", "BufferError",
     "BytesWarning", "ChildProcessError", "ConnectionAbortedError", "ConnectionError",
     "ConnectionRefusedError", "ConnectionResetError", "DeprecationWarning",
     "EOFError", "Ellipsis", "EncodingWarning", "EnvironmentError", "Exception",
     "ExceptionGroup", "False", "FileExistsError", "FileNotFoundError",
     "FloatingPointError", "FutureWarning", "GeneratorExit", "IOError", "ImportError",
     "ImportWarning", "IndentationError", "IndexError", "InterruptedError",
     "IsADirectoryError", "KeyError", "KeyboardInterrupt", "LookupError",
     "MemoryError", "ModuleNotFoundError", "NameError", "None", "NotADirectoryError",
     "NotImplemented", "NotImplementedError", "OSError", "OverflowError",
     "PendingDeprecationWarning", "PermissionError", "ProcessLookupError",
     "RecursionError", "ReferenceError", "ResourceWarning", "RuntimeError",
     "RuntimeWarning", "StopAsyncIteration", "StopIteration", "SyntaxError",
     "SyntaxWarning", "SystemError", "SystemExit", "TabError", "TimeoutError", "True",
     "TypeError", "UnboundLocalError", "UnicodeDecodeError", "UnicodeEncodeError",
     "UnicodeError", "UnicodeTranslateError", "UnicodeWarning", "UserWarning",
     "ValueError", "Warning", "ZeroDivisionError", "__build_class__", "__debug__",
     "__doc__", "__import__", "__loader__", "__name__", "__package__", "__spec__",
     "abs", "aiter", "all", "anext", "any", "ascii", "bin", "bool", "breakpoint",
     "bytearray", "bytes", "callable", "chr", "classmethod", "compile", "complex",
     "copyright", "credits", "delattr", "dict", "dir", "divmod", "enumerate", "eval",
     "exec", "exit", "filter", "float", "format", "frozenset", "getattr", "globals",
     "hasattr", "hash", "help", "hex", "id", "input", "int", "isinstance",
     "issubclass", "iter", "len", "license", "list", "locals", "map", "max",
     "memoryview", "min", "next", "object", "oct", "open", "ord", "pow", "print",
     "property", "quit", "range", "repr", "reversed", "round", "set", "setattr",
     "slice", "sorted", "staticmethod", "str", "sum", "super", "tuple", "type", "vars",
     "zip"}

\* a global name that a statement of ad_hoc_data reads resolves: the module's
\* namespace first, then the builtins
Bound(name) == name \in ModuleNames \/ name \in Builtins

\* the first axis of Uphi: np.zeros((10, dims, dims))
UphiBatch == 10

\* an array with src rows can be assigned to a slice with dst rows
Broadcasts(src, dst) == src = dst \/ src = 1

\* if divisions>0: _modified_LHC ... else: _sobol_sampling
Sampler(divisions) == IF divisions > 0 THEN "_modified_LHC" ELSE "_sobol_sampling"

\* how a call ends: the first statement that raises, in program order
AdHocOutcome(a) ==
    IF a.n < 0
      THEN Raise("TypeError", 109)       \* dims = 2**n is a float; np.ones(dims)
    ELSE IF ~Bound("n_hadamard")
      THEN Raise("NameError", 112)       \* h_n = n_hadamard(n)
    ELSE IF ~Bound("combinations")
      THEN Raise("NameError", 119)       \* for (i, j) in combinations(range(n), 2)
    ELSE IF ~Broadcasts(a.train_size + a.test_size, UphiBatch)
      THEN Raise("ValueError", 156)      \* Uphi[:,cols, cols] = post_exp[:, cols]
    ELSE IF UphiBatch # 1
      THEN Raise("ValueError", 164)      \* if np.abs(exp_val) > gap: an array's truth value
    ELSE Raise("NameError", 165)         \* _sample_total

\* what the call had built when it ended: the sampler it called (line 138-139), the
\* number of matrices in Uphi (line 154), the number of points given a label (line 165)
AdHocLocals(a) ==
    LET at == AdHocOutcome(a).line
    IN  [sampler  |-> IF at > 139 THEN Sampler(a.divisions) ELSE "none",
         uphi     |-> IF at > 154 THEN UphiBatch ELSE 0,
         labelled |-> 0]

\* the call the module itself makes: print(ad_hoc_data(10,10,3,10,0))
ModuleCall == [train_size |-> 10, test_size |-> 10, n |-> 3, gap |-> 10, divisions |-> 0]

AdHocInit ==
    /\ fn = "ad_hoc_data"
    /\ pc = "call"
    /\ \/ args = ModuleCall
       \/ \E train_size \in 0..MaxSize, test_size \in 0..MaxSize, n \in -1..4,
             gap \in {0, 10}, divisions \in -1..MaxDiv :
            args = [train_size |-> train_size, test_size |-> test_size, n |-> n,
                    gap |-> gap, divisions |-> divisions]
    /\ ret = NoRet /\ locals = NoLocals
    /\ IdleH /\ IdleS /\ IdleL

\* the whole call
AdHocCall ==
    /\ fn = "ad_hoc_data" /\ pc = "call"
    /\ pc' = "done"
    /\ ret' = AdHocOutcome(args)
    /\ locals' = AdHocLocals(args)
    /\ UNCHANGED <<cvars, hvars, svars, lvars>>

-----------------------------------------------------------------------------
(* The calls *)

Init == HadInit \/ SampleInit \/ LhcInit \/ SobolInit \/ AdHocInit

Next ==
    \/ HadIter
    \/ HadReturn
    \/ SampleAccept
    \/ SampleReject
    \/ SampleNextList
    \/ SampleReturn
    \/ LhcDim
    \/ LhcReturn
    \/ SobolCall
    \/ AdHocCall

Spec == Init /\ [][Next]_vars

\* A draw that has positive probability at every turn of a loop is taken in the end,
\* and a step that stays possible is taken.
FairSpec ==
    /\ Spec
    /\ WF_vars(HadIter)
    /\ WF_vars(HadReturn)
    /\ WF_vars(SampleAccept)
    /\ WF_vars(SampleNextList)
    /\ WF_vars(SampleReturn)

-----------------------------------------------------------------------------
(* Properties *)

AdHocDone == fn = "ad_hoc_data" /\ pc = "done"
NSamples == args.train_size + args.test_size

\* C1: a call of ad_hoc_data with n = 2 or 3 gives every one of its sampled points a
\* label by thresholding the expectation value against gap (+1 above gap, -1 below
\* -gap, 0 otherwise), and the arrays it returns hold no point labelled 0: class A
\* rows have label +1, class B rows label -1.
C1_EveryPointLabelled ==
    (AdHocDone /\ args.n \in {2, 3}) =>
        /\ locals.labelled = NSamples
        /\ ret.kind = "return" =>
              \A k \in 1..Len(ret.value.rows) :
                  /\ ret.value.rows[k].label \in {1, -1}
                  /\ ret.value.rows[k].class = "A" => ret.value.rows[k].label = 1
                  /\ ret.value.rows[k].class = "B" => ret.value.rows[k].label = -1

\* C2: a call of ad_hoc_data with n other than 2 and 3 raises ValueError, whatever the
\* other arguments are, and has not sampled by then.
C2_ValueErrorUnlessTwoOrThree ==
    (AdHocDone /\ args.n \notin {2, 3}) =>
        /\ ret.kind = "raise"
        /\ ret.exc = "ValueError"
        /\ locals.sampler = "none"

\* C3: a call of ad_hoc_data returns train_size training rows (features and labels)
\* and test_size test rows (features and labels).
C3_ReturnsRequestedSizes ==
    (AdHocDone /\ args.n \in {2, 3}) =>
        /\ ret.kind = "return"
        /\ Len(ret.value.training_feature_array) = args.train_size
        /\ Len(ret.value.training_label_array) = args.train_size
        /\ Len(ret.value.test_feature_array) = args.test_size
        /\ Len(ret.value.test_label_array) = args.test_size

\* C4: a call of ad_hoc_data uses exactly one sampler: _modified_LHC when divisions is
\* not zero, _sobol_sampling when divisions is zero.
C4_SamplerByDivisions ==
    (AdHocDone /\ args.n \in {2, 3}) =>
        /\ args.divisions # 0 => locals.sampler = "_modified_LHC"
        /\ args.divisions = 0 => locals.sampler = "_sobol_sampling"

\* an angle is greater than 0 / at most 2*pi (ulp is 0 or -1, and a double just
\* below a positive one is positive)
Positive(a) == a.num > 0
AtMostTwoPi(a) == a.num < a.den \/ (a.num = a.den /\ a.ulp <= 0)

\* C5: every coordinate that _modified_LHC and _sobol_sampling return lies in
\* (0, 2*pi]: it is greater than 0 and at most 2*pi.
C5_CoordinatesInHalfOpenInterval ==
    (fn \in {"_modified_LHC", "_sobol_sampling"} /\ pc = "done") =>
        \A r \in 1..Len(ret.value) : \A k \in 1..Len(ret.value[r]) :
            /\ Positive(ret.value[r][k])
            /\ AtMostTwoPi(ret.value[r][k])

Sampling == fn = "_sample_ad_hoc_data"
HasLabel(l) == \E d \in DOMAIN args.sample_total : args.sample_total[d] = l

\* the rows of a sample list are grid points of label l
RowsHaveLabel(rows, l) ==
    \A k \in 1..Len(rows) :
        \E d \in DOMAIN args.sample_total :
            /\ rows[k] = DrawPoint(args.xvals, d)
            /\ args.sample_total[d] = l

\* C7: when the grid holds a point labelled +1 and one labelled -1, fair draws bring
\* _sample_ad_hoc_data to its return; what it returns is num_samples points of label
\* +1, then num_samples points of label -1, with labels num_samples zeros then
\* num_samples ones; and a draw is appended only if its grid label is the wanted one.
C7_SamplingTerminatesWithBothClasses ==
    /\ (Sampling /\ HasLabel(1) /\ HasLabel(-1)) ~> (Sampling /\ pc = "done")
    /\ [](Sampling /\ pc = "done" =>
            /\ Len(ret.value.samples) = 2 * args.num_samples
            /\ RowsHaveLabel(SubSeq(ret.value.samples, 1, args.num_samples), 1)
            /\ RowsHaveLabel(SubSeq(ret.value.samples, args.num_samples + 1,
                                    2 * args.num_samples), -1)
            /\ ret.value.labels = [k \in 1..(2 * args.num_samples) |->
                                      IF k <= args.num_samples THEN 0 ELSE 1])
    /\ [][Sampling /\ (sample_a' # sample_a \/ sample_b' # sample_b) =>
            /\ args.sample_total[draws'] = WantedLabel(list_i)
            /\ sample_a' # sample_a =>
                  list_i = 0 /\ sample_a' = Append(sample_a, DrawPoint(args.xvals, draws'))
            /\ sample_b' # sample_b =>
                  list_i = 1 /\ sample_b' = Append(sample_b, DrawPoint(args.xvals, draws'))
         ]_vars

C7_Witness ==
    /\ Sampling /\ pc = "done"
    /\ args.num_samples = 2 /\ args.n = 2
    /\ HasLabel(1) /\ HasLabel(-1) /\ HasLabel(0)
    /\ Len(ret.value.samples) = 4
    /\ ret.value.samples[1] # ret.value.samples[2]
    /\ ret.value.labels = <<0, 0, 1, 1>>

\* the sign of entry (i, j) of a Kronecker power of [[1, 1], [1, -1]]: -1 for every
\* binary digit that i and j both have set
RECURSIVE SignOf(_, _)
SignOf(i, j) ==
    IF i = 0 \/ j = 0 THEN 1
    ELSE (IF i % 2 = 1 /\ j % 2 = 1 THEN -1 ELSE 1) * SignOf(i \div 2, j \div 2)

\* the n-fold Kronecker power of H
HadamardPower(n) ==
    Matrix(n, Pow2(n), [i \in 0..(Pow2(n) - 1) |-> [j \in 0..(Pow2(n) - 1) |-> SignOf(i, j)]])

Hadamard == fn = "_n_hadamard"

\* C8: _n_hadamard(n), n >= 1, returns the n-fold Kronecker power of H, a 2^n x 2^n
\* matrix: at every turn of its loop (factors of H in result) + expo * (factors of H
\* in base) = n, every iteration halves expo, and the loop ends with expo = 0 and n
\* factors in result.
C8_HadamardKroneckerPower ==
    /\ [](Hadamard =>
            /\ result.k + expo * base.k = args.n
            /\ result.dim = Pow2(result.k)
            /\ pc = "done" =>
                  /\ expo = 0
                  /\ result.k = args.n
                  /\ ret = Return(HadamardPower(args.n)))
    /\ [][Hadamard /\ (expo' # expo \/ base' # base) =>
            expo > 0 /\ expo' = expo \div 2]_vars
    /\ Hadamard ~> (Hadamard /\ pc = "done")

C8_Witness ==
    /\ Hadamard /\ pc = "done"
    /\ args.n = 3
    /\ ret.value.dim = 8
    /\ ret.value.m[7][7] = -1
    /\ ret.value.m[5][2] = 1

\* C9: the batch Uphi of a call of ad_hoc_data holds one diagonal unitary for each of
\* the n_samples = train_size + test_size sampled points.
C9_OneUnitaryPerSample ==
    (AdHocDone /\ args.n \in {2, 3}) => locals.uphi = NSamples

====
